---- MODULE Spec2Model ----
(***************************************************************************)
(* Model of main.py, the Trading Economics FastAPI application.            *)
(*                                                                         *)
(* The external provider (tradingeconomics.getIndicatorData) is the        *)
(* environment: `feed` holds what its successive calls answer, and the     *)
(* n-th outbound call of a request is answered by the n-th element of the  *)
(* feed (cyclically).  The system clock is environment too: the n-th       *)
(* datetime.now() of a request returns the n-th element of `clock`         *)
(* (cyclically).  Every handler is one action; the helpers it calls are    *)
(* operators that thread `log`, what the request did to the outside so     *)
(* far: its outbound calls and the number of times it read the clock.      *)
(*                                                                         *)
(* Python values: None is the record [none |-> TRUE], a str whose content  *)
(* matters to the code is [str |-> <<characters>>], a float is the decimal *)
(* [mant |-> m, exp |-> e] (m * 10^e).  Country names, indicator labels,   *)
(* currency codes after normalisation and messages are TLA+ strings.       *)
(* A character is a one-letter string, and a character outside ASCII is    *)
(* written by its code point, as in "U+0131".                              *)
(* A Python call that may raise returns a record with a `raised` field.    *)
(***************************************************************************)
EXTENDS Integers, Sequences, FiniteSets, TLC

VARIABLES
    feed,       \* the provider's answers to the successive outbound calls
    clock,      \* what the successive datetime.now().isoformat() calls return
    request,    \* the inputs of the operation under way
    response,   \* what the operation returned (meaningful when pc = "done")
    calls,      \* the log of outbound provider calls the operation made
    pc          \* "pending" before the handler ran, "done" after

vars == <<feed, clock, request, response, calls, pc>>

----------------------------------------------------------------------------
(* Python values *)

None == [none |-> TRUE]

Str(s) == [str |-> s]

Float(m, e) == [mant |-> m, exp |-> e]

IsStr(v) == "str" \in DOMAIN v

IsFloat(v) == "mant" \in DOMAIN v

Digits == <<"0", "1", "2", "3", "4", "5", "6", "7", "8", "9">>

IsDigit(c) == \E i \in 1..Len(Digits) : Digits[i] = c

DigitVal(c) == (CHOOSE i \in 1..Len(Digits) : Digits[i] = c) - 1

\* s without its leading minus sign
Unsigned(s) == IF Len(s) > 0 /\ s[1] = "-" THEN Tail(s) ELSE s

\* float(s) succeeds: an optional sign, digits with at most one point, and
\* at least one digit (the float grammar over the characters 0-9 . - T :)
IsDecimal(s) ==
    LET b == Unsigned(s)
    IN  /\ \A i \in 1..Len(b) : IsDigit(b[i]) \/ b[i] = "."
        /\ Cardinality({i \in 1..Len(b) : b[i] = "."}) <= 1
        /\ \E i \in 1..Len(b) : IsDigit(b[i])

RECURSIVE DigitsValue(_, _)
\* the integer written by the digits of b, points skipped, after acc
DigitsValue(b, acc) ==
    IF b = <<>> THEN acc
    ELSE IF b[1] = "." THEN DigitsValue(Tail(b), acc)
    ELSE DigitsValue(Tail(b), 10 * acc + DigitVal(b[1]))

RECURSIVE Normal(_, _)
\* the decimal m * 10^e without trailing zeros in the mantissa
Normal(m, e) ==
    IF m = 0 THEN Float(0, 0)
    ELSE IF e < 0 /\ m % 10 = 0 THEN Normal(m \div 10, e + 1)
    ELSE Float(m, e)

\* float(s) for a string s that IsDecimal
DecimalValue(s) ==
    LET b    == Unsigned(s)
        dots == {i \in 1..Len(b) : b[i] = "."}
        frac == IF dots = {} THEN 0 ELSE Len(b) - (CHOOSE i \in dots : TRUE)
        m    == DigitsValue(b, 0)
    IN  Normal(IF b = s THEN m ELSE 0 - m, 0 - frac)

----------------------------------------------------------------------------
(* The provider: tradingeconomics.getIndicatorData(..., output_type='df') *)

DateText == <<"2", "0", "2", "4", "-", "0", "1", "-", "3", "1", "T",
              "0", "0", ":", "0", "0", ":", "0", "0">>

NumberText == <<"5", ".", "2", "5">>

PercentText == <<"p", "e", "r", "c", "e", "n", "t">>

MonthlyText == <<"M", "o", "n", "t", "h", "l", "y">>

\* The rows a data frame of the provider is made of.  "dated" is the row the
\* provider documents (LastUpdate is an ISO date), "numeric" a row whose
\* LastUpdate text reads as a number, "bare" a row of a frame that lacks the
\* columns the code reads.  The provider names the country it was asked for.
Row(kind, country) ==
    CASE kind = "dated" ->
            [Country |-> country, LastUpdate |-> Str(DateText),
             PreviousValue |-> Float(45, -1), Unit |-> Str(PercentText),
             Frequency |-> Str(MonthlyText)]
      [] kind = "numeric" ->
            [Country |-> country, LastUpdate |-> Str(NumberText),
             PreviousValue |-> Float(5, 0), Unit |-> Str(PercentText),
             Frequency |-> Str(MonthlyText)]
      [] OTHER -> [LatestValue |-> Float(525, -2)]

\* What one provider call does, given the answer the feed holds for it:
\* it raises, returns None, or returns a data frame (a sequence of rows).
getIndicatorData(country, indicator, answer) ==
    CASE answer.kind = "raise" -> [raised |-> TRUE, data |-> None]
      [] answer.kind = "none"  -> [raised |-> FALSE, data |-> None]
      [] OTHER ->
            [raised |-> FALSE,
             data |-> [rows |-> [i \in 1..Len(answer.rows) |->
                                    Row(answer.rows[i], country)]]]

\* DataFrame.empty
empty(data) == Len(data.rows) = 0

\* Series.get(key, default)
Get(row, key, default) == IF key \in DOMAIN row THEN row[key] ELSE default

\* a request that did nothing yet
NoLog == [calls |-> <<>>, reads |-> 0]

\* the answer the feed holds for the next outbound call
NextAnswer(log) == feed[(Len(log.calls) % Len(feed)) + 1]

\* what the next datetime.now().isoformat() returns
now(log) == clock[(log.reads % Len(clock)) + 1]

\* the log after one more reading of the clock
Read(log) == [log EXCEPT !.reads = @ + 1]

----------------------------------------------------------------------------
(* Helper functions *)

\* the dict safe_get_indicator_data builds from the row `latest`
LatestDict(latest, country, indicator) ==
    [country |-> Get(latest, "Country", country),
     indicator |-> indicator,
     value |-> Get(latest, "LastUpdate", None),
     previous_value |-> Get(latest, "PreviousValue", None),
     last_update |-> Get(latest, "LastUpdate", None),
     unit |-> Get(latest, "Unit", None),
     frequency |-> Get(latest, "Frequency", None)]

\* the log after one more outbound call
Logged(log, country, indicator) ==
    [log EXCEPT !.calls = Append(@, [country |-> country, indicator |-> indicator])]

\* Body(v) for the value v of a call made once: `x = f(...)` followed by the
\* statements that read x
Let(v, Body(_)) == CHOOSE y \in {Body(x) : x \in {v}} : TRUE

\* safe_get_indicator_data taking the first row (iloc[0]) instead of the last
safe_get_indicator_data_first(country, indicator, log) ==
    Let(getIndicatorData(country, indicator, NextAnswer(log)), LAMBDA out :
        IF out.raised
        THEN [raised |-> FALSE, ret |-> None,
              log |-> Logged(log, country, indicator)]
        ELSE IF out.data # None /\ ~empty(out.data) THEN
            [raised |-> FALSE,
             ret |-> LatestDict(out.data.rows[1], country, indicator),
             log |-> Logged(log, country, indicator)]
        ELSE [raised |-> FALSE, ret |-> None,
              log |-> Logged(log, country, indicator)])

\* safe_get_indicator_data without its try/except: the provider's exception
\* reaches the caller
safe_get_indicator_data_unsafe(country, indicator, log) ==
    Let(getIndicatorData(country, indicator, NextAnswer(log)), LAMBDA out :
        IF out.raised
        THEN [raised |-> TRUE, ret |-> None,
              log |-> Logged(log, country, indicator)]
        ELSE IF out.data # None /\ ~empty(out.data) THEN
            [raised |-> FALSE,
             ret |-> LatestDict(out.data.rows[Len(out.data.rows)],
                                country, indicator),
             log |-> Logged(log, country, indicator)]
        ELSE [raised |-> FALSE, ret |-> None,
              log |-> Logged(log, country, indicator)])

\* One provider call inside try/except Exception: the latest row as a dict,
\* or None when the call raised or returned nothing.
safe_get_indicator_data(country, indicator, log) ==
    Let(getIndicatorData(country, indicator, NextAnswer(log)), LAMBDA out :
        IF out.raised
        THEN [raised |-> FALSE, ret |-> None,
              log |-> Logged(log, country, indicator)]
        ELSE IF out.data # None /\ ~empty(out.data) THEN
            [raised |-> FALSE,
             ret |-> LatestDict(out.data.rows[Len(out.data.rows)],
                                country, indicator),
             log |-> Logged(log, country, indicator)]
        ELSE [raised |-> FALSE, ret |-> None,
              log |-> Logged(log, country, indicator)])

\* pydantic's validation of an Optional[float] field
ValidFloat(v) == v = None \/ IsFloat(v) \/ (IsStr(v) /\ IsDecimal(v.str))

\* the float an Optional[float] field holds after validation
AsFloat(v) == IF IsStr(v) THEN DecimalValue(v.str) ELSE v

\* pydantic's validation of an Optional[str] field
ValidStr(v) == v = None \/ IsStr(v)

\* EconomicIndicator(**d): the model instance, or a ValidationError
EconomicIndicator(d) ==
    IF /\ ValidFloat(d.value)
       /\ ValidFloat(d.previous_value)
       /\ ValidStr(d.last_update)
       /\ ValidStr(d.unit)
       /\ ValidStr(d.frequency)
    THEN [raised |-> FALSE,
          value |-> [country |-> d.country,
                     indicator |-> d.indicator,
                     value |-> AsFloat(d.value),
                     previous_value |-> AsFloat(d.previous_value),
                     last_update |-> d.last_update,
                     unit |-> d.unit,
                     frequency |-> d.frequency]]
    ELSE [raised |-> TRUE, value |-> None]

\* the dict `indicators` of get_country_economic_data, in insertion order
indicators ==
    << [key |-> "interest_rate",     label |-> "Interest Rate"],
       [key |-> "gdp_growth",        label |-> "GDP Growth Rate"],
       [key |-> "inflation_rate",    label |-> "Inflation Rate"],
       [key |-> "unemployment_rate", label |-> "Unemployment Rate"] >>

RECURSIVE FetchLoop(_, _, _, _)
\* the for loop of get_country_economic_data from its i-th item on
FetchLoop(country, i, data, log) ==
    IF i > Len(indicators) THEN [raised |-> FALSE, data |-> data, log |-> log]
    ELSE
        Let(safe_get_indicator_data(country, indicators[i].label, log), LAMBDA f :
            IF f.raised THEN [raised |-> TRUE, data |-> data, log |-> f.log]
            ELSE IF f.ret # None THEN
                Let(EconomicIndicator(f.ret), LAMBDA e :
                    IF e.raised
                    THEN [raised |-> TRUE, data |-> data, log |-> f.log]
                    ELSE FetchLoop(country, i + 1,
                                   (indicators[i].key :> e.value) @@ data, f.log))
            ELSE FetchLoop(country, i + 1,
                           (indicators[i].key :> None) @@ data, f.log))

\* get_country_economic_data: the composite record, or the exception of the
\* loop
get_country_economic_data(country, log) ==
    Let(FetchLoop(country, 1, <<>>, log), LAMBDA l :
        IF l.raised THEN [raised |-> TRUE, value |-> None, log |-> l.log]
        ELSE [raised |-> FALSE,
              value |-> [country |-> country,
                         interest_rate |-> l.data["interest_rate"],
                         gdp_growth |-> l.data["gdp_growth"],
                         inflation_rate |-> l.data["inflation_rate"],
                         unemployment_rate |-> l.data["unemployment_rate"],
                         last_updated |-> now(l.log)],
              log |-> Read(l.log)])

----------------------------------------------------------------------------
(* What the HTTP framework answers *)

\* a returned value is served with status 200
Ok(body) == [status |-> 200, body |-> body]

\* raise HTTPException(status_code, detail)
HTTPException(status_code, detail) == [status |-> status_code, body |-> detail]

----------------------------------------------------------------------------
(* GET /indicators/{country} *)

get_country_indicators(country, log) ==
    Let(get_country_economic_data(country, log), LAMBDA r :
        IF r.raised
        THEN [resp |-> HTTPException(500, "Error fetching data for " \o country),
              log |-> r.log]
        ELSE [resp |-> Ok(r.value), log |-> r.log])

----------------------------------------------------------------------------
(* Currency to country mapping *)

\* the dict CURRENCY_COUNTRY_MAP, in insertion order
CURRENCY_COUNTRY_MAP ==
    <<
       [code |-> "USD", country |-> "United States"],
       [code |-> "EUR", country |-> "Euro Area"],
       [code |-> "GBP", country |-> "United Kingdom"],
       [code |-> "JPY", country |-> "Japan"],
       [code |-> "CHF", country |-> "Switzerland"],
       [code |-> "CAD", country |-> "Canada"],
       [code |-> "AUD", country |-> "Australia"],
       [code |-> "NZD", country |-> "New Zealand"],
       [code |-> "SEK", country |-> "Sweden"],
       [code |-> "NOK", country |-> "Norway"],
       [code |-> "DKK", country |-> "Denmark"],
       [code |-> "PLN", country |-> "Poland"],
       [code |-> "CZK", country |-> "Czech Republic"],
       [code |-> "HUF", country |-> "Hungary"],
       [code |-> "SGD", country |-> "Singapore"],
       [code |-> "HKD", country |-> "Hong Kong"],
       [code |-> "KRW", country |-> "South Korea"],
       [code |-> "CNY", country |-> "China"],
       [code |-> "INR", country |-> "India"],
       [code |-> "BRL", country |-> "Brazil"],
       [code |-> "MXN", country |-> "Mexico"],
       [code |-> "ZAR", country |-> "South Africa"],
       [code |-> "RUB", country |-> "Russia"],
       [code |-> "TRY", country |-> "Turkey"]
    >>

\* code in CURRENCY_COUNTRY_MAP
Supported(code) ==
    \E i \in 1..Len(CURRENCY_COUNTRY_MAP) : CURRENCY_COUNTRY_MAP[i].code = code

\* CURRENCY_COUNTRY_MAP[code]
CountryOf(code) ==
    CURRENCY_COUNTRY_MAP[CHOOSE i \in 1..Len(CURRENCY_COUNTRY_MAP) :
                            CURRENCY_COUNTRY_MAP[i].code = code].country

LowerLetters ==
    << "a", "b", "c", "d", "e", "f", "g", "h", "i", "j", "k", "l", "m",
       "n", "o", "p", "q", "r", "s", "t", "u", "v", "w", "x", "y", "z" >>

UpperLetters ==
    << "A", "B", "C", "D", "E", "F", "G", "H", "I", "J", "K", "L", "M",
       "N", "O", "P", "Q", "R", "S", "T", "U", "V", "W", "X", "Y", "Z" >>

\* The characters outside ASCII that str.upper() changes into text with an
\* ASCII letter in it and nothing else (every other character outside ASCII
\* stays outside ASCII), and one character, U+00E9, of those others.
SpecialUpper ==
    << [char |-> "U+00DF", upper |-> <<"S", "S">>],
       [char |-> "U+0131", upper |-> <<"I">>],
       [char |-> "U+017F", upper |-> <<"S">>],
       [char |-> "U+FB00", upper |-> <<"F", "F">>],
       [char |-> "U+FB01", upper |-> <<"F", "I">>],
       [char |-> "U+FB02", upper |-> <<"F", "L">>],
       [char |-> "U+FB03", upper |-> <<"F", "F", "I">>],
       [char |-> "U+FB04", upper |-> <<"F", "F", "L">>],
       [char |-> "U+FB05", upper |-> <<"S", "T">>],
       [char |-> "U+FB06", upper |-> <<"S", "T">>],
       [char |-> "U+00E9", upper |-> <<"U+00C9">>] >>

\* str.upper() of one character, a sequence of characters: an ASCII
\* lowercase letter becomes its capital, a character of SpecialUpper its
\* entry (which may be longer than one character), and every other character
\* of the model's alphabet is kept
UpperChar(c) ==
    IF \E i \in 1..Len(LowerLetters) : LowerLetters[i] = c
    THEN <<UpperLetters[CHOOSE i \in 1..Len(LowerLetters) : LowerLetters[i] = c]>>
    ELSE IF \E i \in 1..Len(SpecialUpper) : SpecialUpper[i].char = c
    THEN SpecialUpper[CHOOSE i \in 1..Len(SpecialUpper) :
                         SpecialUpper[i].char = c].upper
    ELSE <<c>>

RECURSIVE upper(_)
\* str.upper() of a sequence of characters
upper(s) == IF s = <<>> THEN <<>> ELSE UpperChar(s[1]) \o upper(Tail(s))

RECURSIVE Text(_)
\* the string a sequence of characters spells
Text(s) == IF s = <<>> THEN "" ELSE s[1] \o Text(Tail(s))

----------------------------------------------------------------------------
(* GET /currency-pairs/{base}/{quote} *)

\* the except branch of get_currency_pair_data, after the calls in log
PairError(log) ==
    [raised |-> TRUE,
     exc |-> HTTPException(500, "Error fetching currency pair data"),
     value |-> None, log |-> log]

\* return CurrencyPairData(...)
PairValue(base, quote, base_data, quote_data) ==
    [raised |-> FALSE, exc |-> None,
     value |-> [base_currency |-> base,
                quote_currency |-> quote,
                base_country_data |-> base_data.value,
                quote_country_data |-> quote_data.value],
     log |-> quote_data.log]

\* get_currency_pair_data with the code checks moved inside the try block:
\* the 404 is caught by `except Exception` and becomes a 500
get_currency_pair_data_checks_in_try(base, quote, log) ==
    Let(<<Text(upper(base)), Text(upper(quote))>>, LAMBDA c :
        IF ~Supported(c[1]) \/ ~Supported(c[2]) THEN PairError(log)
        ELSE
            Let(get_country_economic_data(CountryOf(c[1]), log), LAMBDA base_data :
                IF base_data.raised THEN PairError(base_data.log)
                ELSE
                    Let(get_country_economic_data(CountryOf(c[2]), base_data.log),
                        LAMBDA quote_data :
                            IF quote_data.raised THEN PairError(quote_data.log)
                            ELSE PairValue(c[1], c[2], base_data, quote_data))))

\* get_currency_pair_data looking the codes up as given, without .upper()
get_currency_pair_data_no_upper(base, quote, log) ==
    Let(<<Text(base), Text(quote)>>, LAMBDA c :
        IF ~Supported(c[1]) THEN
            [raised |-> TRUE,
             exc |-> HTTPException(404, "Currency " \o c[1] \o " not supported"),
             value |-> None, log |-> log]
        ELSE IF ~Supported(c[2]) THEN
            [raised |-> TRUE,
             exc |-> HTTPException(404, "Currency " \o c[2] \o " not supported"),
             value |-> None, log |-> log]
        ELSE
            Let(get_country_economic_data(CountryOf(c[1]), log), LAMBDA base_data :
                IF base_data.raised THEN PairError(base_data.log)
                ELSE
                    Let(get_country_economic_data(CountryOf(c[2]), base_data.log),
                        LAMBDA quote_data :
                            IF quote_data.raised THEN PairError(quote_data.log)
                            ELSE PairValue(c[1], c[2], base_data, quote_data))))

\* get_currency_pair_data running both aggregations before it looks at
\* either result: a failed base aggregation does not stop the quote one
get_currency_pair_data_both(base, quote, log) ==
    Let(<<Text(upper(base)), Text(upper(quote))>>, LAMBDA c :
        IF ~Supported(c[1]) THEN
            [raised |-> TRUE,
             exc |-> HTTPException(404, "Currency " \o c[1] \o " not supported"),
             value |-> None, log |-> log]
        ELSE IF ~Supported(c[2]) THEN
            [raised |-> TRUE,
             exc |-> HTTPException(404, "Currency " \o c[2] \o " not supported"),
             value |-> None, log |-> log]
        ELSE
            Let(get_country_economic_data(CountryOf(c[1]), log), LAMBDA base_data :
                Let(get_country_economic_data(CountryOf(c[2]), base_data.log),
                    LAMBDA quote_data :
                        IF base_data.raised \/ quote_data.raised
                        THEN PairError(quote_data.log)
                        ELSE PairValue(c[1], c[2], base_data, quote_data))))

\* get_currency_pair_data checking the quote code only after the base
\* country was aggregated
get_currency_pair_data_late_check(base, quote, log) ==
    Let(<<Text(upper(base)), Text(upper(quote))>>, LAMBDA c :
        IF ~Supported(c[1]) THEN
            [raised |-> TRUE,
             exc |-> HTTPException(404, "Currency " \o c[1] \o " not supported"),
             value |-> None, log |-> log]
        ELSE
            Let(get_country_economic_data(CountryOf(c[1]), log), LAMBDA base_data :
                IF ~Supported(c[2]) THEN
                    [raised |-> TRUE,
                     exc |-> HTTPException(404, "Currency " \o c[2] \o " not supported"),
                     value |-> None, log |-> base_data.log]
                ELSE IF base_data.raised THEN PairError(base_data.log)
                ELSE
                    Let(get_country_economic_data(CountryOf(c[2]), base_data.log),
                        LAMBDA quote_data :
                            IF quote_data.raised THEN PairError(quote_data.log)
                            ELSE PairValue(c[1], c[2], base_data, quote_data))))

\* The coroutine get_currency_pair_data: it returns a CurrencyPairData or
\* raises an HTTPException (404 before the try block, 500 from its except);
\* c holds base.upper() and quote.upper().
get_currency_pair_data(base, quote, log) ==
    Let(<<Text(upper(base)), Text(upper(quote))>>, LAMBDA c :
        IF ~Supported(c[1]) THEN
            [raised |-> TRUE,
             exc |-> HTTPException(404, "Currency " \o c[1] \o " not supported"),
             value |-> None, log |-> log]
        ELSE IF ~Supported(c[2]) THEN
            [raised |-> TRUE,
             exc |-> HTTPException(404, "Currency " \o c[2] \o " not supported"),
             value |-> None, log |-> log]
        ELSE
            Let(get_country_economic_data(CountryOf(c[1]), log), LAMBDA base_data :
                IF base_data.raised THEN PairError(base_data.log)
                ELSE
                    Let(get_country_economic_data(CountryOf(c[2]), base_data.log),
                        LAMBDA quote_data :
                            IF quote_data.raised THEN PairError(quote_data.log)
                            ELSE PairValue(c[1], c[2], base_data, quote_data))))

\* the route: the framework serves the returned value, or the HTTPException
CurrencyPairRoute(base, quote, log) ==
    Let(get_currency_pair_data(base, quote, log), LAMBDA r :
        [resp |-> IF r.raised THEN r.exc ELSE Ok(r.value), log |-> r.log])

----------------------------------------------------------------------------
(* GET /interest-rates *)

DefaultCount == 10

\* list(CURRENCY_COUNTRY_MAP.values())[:10]
DefaultCountries ==
    [i \in 1..DefaultCount |-> CURRENCY_COUNTRY_MAP[i].country]

RECURSIVE RatesLoop(_, _, _, _)
\* the for loop of get_interest_rates from its i-th country on
RatesLoop(countries, i, results, log) ==
    IF i > Len(countries) THEN [raised |-> FALSE, results |-> results, log |-> log]
    ELSE
        Let(safe_get_indicator_data(countries[i], "Interest Rate", log), LAMBDA f :
            IF f.raised THEN [raised |-> TRUE, results |-> results, log |-> f.log]
            ELSE IF f.ret # None THEN
                Let(EconomicIndicator(f.ret), LAMBDA e :
                    IF e.raised
                    THEN [raised |-> TRUE, results |-> results, log |-> f.log]
                    ELSE RatesLoop(countries, i + 1, Append(results, e.value), f.log))
            ELSE RatesLoop(countries, i + 1, results, f.log))

\* get_interest_rates; an exception leaving the handler is served by the
\* framework as 500 Internal Server Error
get_interest_rates(countries, log) ==
    Let(RatesLoop(IF countries = None \/ countries = <<>>
                  THEN DefaultCountries ELSE countries, 1, <<>>, log),
        LAMBDA l :
            IF l.raised
            THEN [resp |-> HTTPException(500, "Internal Server Error"), log |-> l.log]
            ELSE [resp |-> Ok(l.results), log |-> l.log])

----------------------------------------------------------------------------
(* GET /all-currency-pairs *)

major_currencies ==
    << <<"U", "S", "D">>, <<"E", "U", "R">>, <<"G", "B", "P">>,
       <<"J", "P", "Y">>, <<"C", "H", "F">>, <<"C", "A", "D">>,
       <<"A", "U", "D">> >>

base_currencies == << <<"U", "S", "D">>, <<"E", "U", "R">>, <<"G", "B", "P">> >>

RECURSIVE SweepLoop_break(_, _, _, _)
\* the sweep leaving its loops at the first combination that raises (break
\* in place of continue)
SweepLoop_break(i, j, pairs, log) ==
    IF i > Len(base_currencies) THEN [pairs |-> pairs, log |-> log]
    ELSE IF j > Len(major_currencies) THEN SweepLoop_break(i + 1, 1, pairs, log)
    ELSE IF base_currencies[i] # major_currencies[j] THEN
        Let(get_currency_pair_data(base_currencies[i], major_currencies[j], log),
            LAMBDA r :
                IF r.raised THEN [pairs |-> pairs, log |-> r.log]
                ELSE SweepLoop_break(i, j + 1, Append(pairs, r.value), r.log))
    ELSE SweepLoop_break(i, j + 1, pairs, log)

RECURSIVE SweepLoop(_, _, _, _)
\* the nested for loops of get_all_major_currency_pairs from the i-th base
\* and the j-th quote on
SweepLoop(i, j, pairs, log) ==
    IF i > Len(base_currencies) THEN [pairs |-> pairs, log |-> log]
    ELSE IF j > Len(major_currencies) THEN SweepLoop(i + 1, 1, pairs, log)
    ELSE IF base_currencies[i] # major_currencies[j] THEN
        Let(get_currency_pair_data(base_currencies[i], major_currencies[j], log),
            LAMBDA r :
                IF r.raised THEN SweepLoop(i, j + 1, pairs, r.log)
                ELSE SweepLoop(i, j + 1, Append(pairs, r.value), r.log))
    ELSE SweepLoop(i, j + 1, pairs, log)

get_all_major_currency_pairs(log) ==
    Let(SweepLoop(1, 1, <<>>, log), LAMBDA l :
        [resp |-> Ok(l.pairs), log |-> l.log])

----------------------------------------------------------------------------
(* The answers a feed is drawn from *)

MaxRows == 2

RECURSIVE FramesOf(_, _)
\* the sequences of 1..n rows of the given kinds
FramesOf(kinds, n) ==
    IF n = 0 THEN {}
    ELSE LET shorter == FramesOf(kinds, n - 1)
         IN  {<<k>> : k \in kinds} \cup shorter
             \cup {Append(s, k) : s \in shorter, k \in kinds}

\* a frame's rows share their columns
Frames == FramesOf({"dated", "numeric"}, MaxRows) \cup FramesOf({"bare"}, MaxRows)

Raises == [kind |-> "raise", rows |-> <<>>]

ReturnsNone == [kind |-> "none", rows |-> <<>>]

Returns(rows) == [kind |-> "frame", rows |-> rows]

Answers == {Raises, ReturnsNone, Returns(<<>>)} \cup {Returns(f) : f \in Frames}

\* the answers an aggregation is checked on
AggAnswers ==
    {Raises, ReturnsNone, Returns(<<>>), Returns(<<"dated">>),
     Returns(<<"numeric">>), Returns(<<"dated", "numeric">>),
     Returns(<<"numeric", "dated">>), Returns(<<"bare">>)}

\* successive readings of the clock
Times == <<"2025-01-01T00:00:00.000001", "2025-01-01T00:00:00.000027",
          "2025-01-01T00:00:00.000052">>

\* the reading of the clock i microseconds into the second, as isoformat()
\* writes it (i from 1 to 99)
Stamp(i) ==
    "2025-01-01T00:00:00.0000" \o Digits[(i \div 10) + 1] \o Digits[(i % 10) + 1]

\* the readings of the clock during one sweep: one per aggregation, two per
\* combination of a base currency with another major currency
SweepReads == 2 * Len(base_currencies) * (Len(major_currencies) - 1)

\* a clock that advances between any two readings of a sweep
SweepTimes == [i \in 1..SweepReads |-> Stamp(i)]

\* a clock that advances only every other reading of a sweep
CoarseSweepTimes == [i \in 1..SweepReads |-> Stamp((i + 1) \div 2)]

----------------------------------------------------------------------------
(* Specification of one Indicator Fetcher call *)

InitFetch ==
    /\ feed \in [1..2 -> Answers]
    /\ clock = <<Times[1]>>
    /\ request \in [country : {"Japan", "Atlantis"},
                    indicator : {indicators[i].label : i \in 1..Len(indicators)}]
    /\ response = None
    /\ calls = <<>>
    /\ pc = "pending"

Fetch ==
    /\ pc = "pending"
    /\ \E f \in {safe_get_indicator_data(request.country, request.indicator, NoLog)} :
           /\ response' = [raised |-> f.raised, ret |-> f.ret]
           /\ calls' = f.log.calls
    /\ pc' = "done"
    /\ UNCHANGED <<feed, clock, request>>

SpecFetch == InitFetch /\ [][Fetch]_vars

----------------------------------------------------------------------------
(* Specification of GET /indicators/{country} *)

InitIndicators ==
    /\ feed \in [1..Len(indicators) -> AggAnswers]
    /\ clock \in {<<Times[i]>> : i \in 1..Len(Times)}
    /\ request \in [country : {"Japan", "Atlantis"}]
    /\ response = None
    /\ calls = <<>>
    /\ pc = "pending"

GetCountryIndicators ==
    /\ pc = "pending"
    /\ \E r \in {get_country_indicators(request.country, NoLog)} :
           /\ response' = r.resp
           /\ calls' = r.log.calls
    /\ pc' = "done"
    /\ UNCHANGED <<feed, clock, request>>

SpecIndicators == InitIndicators /\ [][GetCountryIndicators]_vars

----------------------------------------------------------------------------
(* Specification of GET /currency-pairs/{base}/{quote} *)

\* the answers a pair and a rate list are checked on: a failed fetch, a row
\* pydantic rejects and a row it accepts
PairAnswers == {Raises, Returns(<<"dated">>), Returns(<<"numeric">>)}

BaseInputs ==
    { <<"u", "s", "d">>, <<"E", "u", "r">>, <<"x", "y", "z">>,
      <<"U+0131", "n", "r">> }

QuoteInputs ==
    { <<"J", "P", "Y">>, <<"e", "U", "R">>, <<"U", "S">>, <<"u", "U+017F", "d">>,
      <<"U+00DF">> }

InitPair ==
    /\ feed \in [1..(2 * Len(indicators)) -> PairAnswers]
    /\ clock \in {<<Times[1], t>> : t \in {Times[1], Times[2]}}
    /\ request \in [base : BaseInputs, quote : QuoteInputs]
    /\ response = None
    /\ calls = <<>>
    /\ pc = "pending"

GetCurrencyPairData ==
    /\ pc = "pending"
    /\ \E r \in {CurrencyPairRoute(request.base, request.quote, NoLog)} :
           /\ response' = r.resp
           /\ calls' = r.log.calls
    /\ pc' = "done"
    /\ UNCHANGED <<feed, clock, request>>

SpecPair == InitPair /\ [][GetCurrencyPairData]_vars

----------------------------------------------------------------------------
(* Specification of GET /interest-rates *)

InitRates ==
    /\ feed \in [1..DefaultCount -> PairAnswers]
    /\ clock = <<Times[1]>>
    /\ request \in [countries : {None, <<>>, <<"Japan", "Atlantis">>}]
    /\ response = None
    /\ calls = <<>>
    /\ pc = "pending"

GetInterestRates ==
    /\ pc = "pending"
    /\ \E r \in {get_interest_rates(request.countries, NoLog)} :
           /\ response' = r.resp
           /\ calls' = r.log.calls
    /\ pc' = "done"
    /\ UNCHANGED <<feed, clock, request>>

SpecRates == InitRates /\ [][GetInterestRates]_vars

----------------------------------------------------------------------------
(* Specification of GET /all-currency-pairs *)

\* the provider's answers repeat with this period during a sweep: longer
\* than the eight calls of one combination, so that some combinations meet
\* no rejected row and others do
SweepPeriod == 9

\* during one sweep the provider answers either a row pydantic rejects or
\* one fixed other answer
InitSweep ==
    /\ \E other \in {Raises, ReturnsNone, Returns(<<"numeric">>)} :
           feed \in [1..SweepPeriod -> {Returns(<<"dated">>), other}]
    /\ clock \in {SweepTimes, CoarseSweepTimes}
    /\ request = None
    /\ response = None
    /\ calls = <<>>
    /\ pc = "pending"

GetAllMajorCurrencyPairs ==
    /\ pc = "pending"
    /\ \E r \in {get_all_major_currency_pairs(NoLog)} :
           /\ response' = r.resp
           /\ calls' = r.log.calls
    /\ pc' = "done"
    /\ UNCHANGED <<feed, clock, request>>

SpecSweep == InitSweep /\ [][GetAllMajorCurrencyPairs]_vars

----------------------------------------------------------------------------
(* What the properties say about the provider's answers *)

\* the fetch this answer is given to fails: the call raises, or returns
\* None or an empty frame
Failed(answer) == answer.kind \in {"raise", "none"} \/ answer.rows = <<>>

\* the kind of the most recent row of a non-empty frame
LastKind(answer) == answer.rows[Len(answer.rows)]

\* the answer has a latest row, and its LastUpdate is a date
Dated(answer) == ~Failed(answer) /\ LastKind(answer) = "dated"

Labels == <<"Interest Rate", "GDP Growth Rate", "Inflation Rate", "Unemployment Rate">>

Slots(body) ==
    <<body.interest_rate, body.gdp_growth, body.inflation_rate,
      body.unemployment_rate>>

Done == pc = "done"

----------------------------------------------------------------------------
(* GET /indicators/{country}: C1, C2, C7 *)

\* C1: whatever the four fetches do (raise, return nothing, or return a
\* frame whose latest row becomes an EconomicIndicator), the aggregator
\* produces a composite record stamped with the server's time, and
\* GET /indicators/{country} never answers 500.
C1_AggregatorNeverFails ==
    Done => /\ response.status = 200
            /\ response.body.country = request.country
            /\ response.body.last_updated = clock[1]

\* C2: when the provider call fails for all four indicators, the answer is
\* 200 with the requested country and four absent slots.
C2_AllFailedStill200 ==
    (Done /\ \A i \in 1..4 : Failed(feed[i]))
        => /\ response.status = 200
           /\ response.body.country = request.country
           /\ \A i \in 1..4 : Slots(response.body)[i] = None

C2_Witness ==
    /\ Done
    /\ feed = <<Raises, ReturnsNone, Returns(<<>>), Raises>>
    /\ response.status = 200
    /\ Len(calls) = 4

\* C7: one run of the aggregator calls the fetcher exactly four times, once
\* per label in the fixed order, whatever the earlier fetches did, and each
\* slot is absent exactly when its own fetch failed.
C7_FourFetchesAlways ==
    Done => /\ calls = [i \in 1..4 |-> [country |-> request.country,
                                        indicator |-> Labels[i]]]
            /\ response.status = 200 =>
                  \A i \in 1..4 :
                      (Slots(response.body)[i] = None) <=> Failed(feed[i])

----------------------------------------------------------------------------
(* The Indicator Fetcher: C8 *)

\* C8: one fetcher call makes exactly one provider call (for its own
\* country and indicator), raises nothing, returns None when the call raised
\* or returned nothing, and returns a record only for a non-empty result,
\* taken from its last row.
C8_OneCallNoRaise ==
    Done => /\ calls = <<[country |-> request.country,
                          indicator |-> request.indicator]>>
            /\ ~response.raised
            /\ Failed(feed[1]) => response.ret = None
            /\ response.ret # None =>
                  /\ ~Failed(feed[1])
                  /\ response.ret.indicator = request.indicator
                  /\ response.ret.country = request.country
                  /\ response.ret.last_update =
                        CASE LastKind(feed[1]) = "dated"   -> Str(DateText)
                          [] LastKind(feed[1]) = "numeric" -> Str(NumberText)
                          [] OTHER -> None
                  /\ response.ret.previous_value =
                        CASE LastKind(feed[1]) = "dated"   -> Float(45, -1)
                          [] LastKind(feed[1]) = "numeric" -> Float(5, 0)
                          [] OTHER -> None

C8_Witness ==
    /\ Done
    /\ feed[1] = Returns(<<"dated", "numeric">>)
    /\ response.ret # None
    /\ response.ret.last_update = Str(NumberText)

----------------------------------------------------------------------------
(* GET /currency-pairs/{base}/{quote}: C3, C6, C9, C10 *)

\* the inputs whose upper() is no key of the table (U+00DF becomes SS)
UnsupportedInputs == { <<"x", "y", "z">>, <<"U", "S">>, <<"U+00DF">> }

\* the key and the country the table holds for a supported input
Expected(input) ==
    CASE input = <<"u", "s", "d">> -> [code |-> "USD", country |-> "United States"]
      [] input = <<"E", "u", "r">> -> [code |-> "EUR", country |-> "Euro Area"]
      [] input = <<"e", "U", "R">> -> [code |-> "EUR", country |-> "Euro Area"]
      [] input = <<"J", "P", "Y">> -> [code |-> "JPY", country |-> "Japan"]
      [] input = <<"U+0131", "n", "r">> -> [code |-> "INR", country |-> "India"]
      [] input = <<"u", "U+017F", "d">>
            -> [code |-> "USD", country |-> "United States"]

BothSupported ==
    request.base \notin UnsupportedInputs /\ request.quote \notin UnsupportedInputs

\* C3: a request with an unsupported code is answered 404, whatever the
\* other code is and whatever the provider would answer; never 500.
C3_UnsupportedIs404 ==
    (Done /\ ~BothSupported) => response.status = 404

C3_Witness ==
    /\ Done
    /\ request.base = <<"u", "s", "d">>
    /\ request.quote = <<"U", "S">>
    /\ response = HTTPException(404, "Currency US not supported")

\* C6: for codes supported in some letter case the answer is never 404, and
\* a 200 answer carries the uppercased codes and the table's country names.
C6_CaseInsensitive ==
    (Done /\ BothSupported)
        => /\ response.status # 404
           /\ response.status = 200 =>
                 /\ response.body.base_currency = Expected(request.base).code
                 /\ response.body.quote_currency = Expected(request.quote).code
                 /\ response.body.base_country_data.country
                       = Expected(request.base).country
                 /\ response.body.quote_country_data.country
                       = Expected(request.quote).country

C6_Witness ==
    /\ Done
    /\ request.base = <<"E", "u", "r">>
    /\ request.quote = <<"J", "P", "Y">>
    /\ response.status = 200
    /\ response.body.base_currency = "EUR"
    /\ response.body.quote_currency = "JPY"

\* the fetches of the base aggregation are the calls 1..4, those of the
\* quote aggregation the calls 5..8; an aggregation raises when a fetch of
\* it returns a row that is no EconomicIndicator
BaseRaises == \E i \in 1..4 : Dated(feed[i])

QuoteRaises == ~BaseRaises /\ \E i \in 5..8 : Dated(feed[i])

\* C9: for supported codes the base country is aggregated and then the quote
\* country; if either aggregation raises the answer is 500 with no partial
\* data, and if the base aggregation raises the quote one is not started.
C9_AggregationErrorIs500 ==
    (Done /\ BothSupported)
        => /\ (BaseRaises \/ QuoteRaises)
                 => response = HTTPException(500, "Error fetching currency pair data")
           /\ BaseRaises
                 => /\ Len(calls) <= 4
                    /\ \A i \in 1..Len(calls) :
                          calls[i].country = Expected(request.base).country
           /\ QuoteRaises
                 => /\ Len(calls) > 4
                    /\ \A i \in 5..Len(calls) :
                          calls[i].country = Expected(request.quote).country

C9_Witness ==
    /\ Done
    /\ BothSupported
    /\ ~Dated(feed[1]) /\ Dated(feed[2])
    /\ response.status = 500
    /\ Len(calls) = 2

\* C10: the codes are validated before any provider call: a 404 answer made
\* no call; supported codes make at most eight calls, the base country's
\* fetches first and in label order, then the quote country's.
C10_ValidateBeforeCalls ==
    Done => /\ response.status = 404 => calls = <<>>
            /\ BothSupported =>
                  /\ Len(calls) <= 8
                  /\ \A i \in 1..Len(calls) :
                        calls[i] =
                            [country |-> IF i <= 4
                                         THEN Expected(request.base).country
                                         ELSE Expected(request.quote).country,
                             indicator |-> Labels[((i - 1) % 4) + 1]]

C10_Witness ==
    /\ Done
    /\ request.base = <<"u", "s", "d">>
    /\ request.quote = <<"J", "P", "Y">>
    /\ response.status = 200
    /\ Len(calls) = 8
    /\ calls[4].country = "United States"
    /\ calls[5].country = "Japan"

----------------------------------------------------------------------------
(* GET /interest-rates: C5 *)

FirstTen ==
    <<"United States", "Euro Area", "United Kingdom", "Japan", "Switzerland",
      "Canada", "Australia", "New Zealand", "Sweden", "Norway">>

RECURSIVE Surviving(_)
\* the positions, in order, of the answers 1..n that are no failed fetch
Surviving(n) ==
    IF n = 0 THEN <<>>
    ELSE IF Failed(feed[n]) THEN Surviving(n - 1)
    ELSE Append(Surviving(n - 1), n)

\* C5: without a `countries` parameter (or with an empty one) the first ten
\* table values are queried in table order; the request does not fail
\* whatever the provider answers, and the list holds, in table order, one
\* entry for each country whose fetch did not fail.
C5_DefaultTenNeverFails ==
    (Done /\ (request.countries = None \/ request.countries = <<>>))
        => /\ calls = [i \in 1..10 |-> [country |-> FirstTen[i],
                                         indicator |-> "Interest Rate"]]
           /\ response.status = 200
           /\ Len(response.body) <= 10
           /\ [i \in 1..Len(response.body) |-> response.body[i].country]
                 = [i \in 1..Len(Surviving(10)) |-> FirstTen[Surviving(10)[i]]]

----------------------------------------------------------------------------
(* GET /all-currency-pairs: C4 *)

SweepOrder ==
    << <<"USD", "EUR">>, <<"USD", "GBP">>, <<"USD", "JPY">>, <<"USD", "CHF">>,
       <<"USD", "CAD">>, <<"USD", "AUD">>,
       <<"EUR", "USD">>, <<"EUR", "GBP">>, <<"EUR", "JPY">>, <<"EUR", "CHF">>,
       <<"EUR", "CAD">>, <<"EUR", "AUD">>,
       <<"GBP", "USD">>, <<"GBP", "EUR">>, <<"GBP", "JPY">>, <<"GBP", "CHF">>,
       <<"GBP", "CAD">>, <<"GBP", "AUD">> >>

\* the answer given to the n-th outbound call of the request
AnswerAt(n) == feed[((n - 1) % Len(feed)) + 1]

RECURSIVE Composed(_, _)
\* the combinations from the k-th on that are composed, when the k-th
\* starts with the n-th outbound call: a combination makes eight calls and
\* is composed unless one of them returns a dated row, which ends it
Composed(k, n) ==
    IF k > Len(SweepOrder) THEN <<>>
    ELSE LET bad == {j \in 0..7 : Dated(AnswerAt(n + j))}
         IN  IF bad = {} THEN <<SweepOrder[k]>> \o Composed(k + 1, n + 8)
             ELSE Composed(k + 1,
                           n + 1 + CHOOSE j \in bad : \A h \in bad : j <= h)

\* C4: the sweep always answers 200; its 18 combinations are tried in
\* base-major order, a combination whose composer raises is dropped and the
\* sweep goes on, and the answer holds exactly the composed pairs in sweep
\* order.
C4_SweepDropsFailures ==
    Done => /\ response.status = 200
            /\ Len(SweepOrder) = 18
            /\ [i \in 1..Len(response.body) |->
                   <<response.body[i].base_currency,
                     response.body[i].quote_currency>>] = Composed(1, 1)

C4_Witness ==
    /\ Done
    /\ response.status = 200
    /\ Len(response.body) > 0
    /\ Len(response.body) < 18
    /\ \E i \in 1..Len(response.body) :
          /\ response.body[i].base_currency = "GBP"
          /\ i < Len(response.body)
          /\ response.body[i + 1].base_currency = "GBP"

====
